---------------------------- MODULE Spec2Model ----------------------------
(***************************************************************************)
(* Deployment-automation simulator of aula-16/challenge.py:                *)
(* DeploymentManager with its record table, its per-environment version    *)
(* map, deploy(), the automatic rollback and the manual rollback().        *)
(* Also divide() of aula-16/calculator.py and the RateLimiter of           *)
(* aula-6/challenge.py, each with variables of its own that the other      *)
(* programs leave untouched.                                               *)
(*                                                                         *)
(* Each caller is a thread with a stack of deploy() frames; a frame holds  *)
(* the position in deploy() and a reference to its DeploymentRecord.       *)
(* Objects live in a heap (records), the dict self.deployments maps ids to *)
(* heap references and keeps Python's insertion order.                     *)
(*                                                                         *)
(* Modelling conventions                                                   *)
(*  - Optional[T]: None is <<>>, a value x is <<x>>.                       *)
(*  - f-strings are tuples of their parts.                                 *)
(*  - time is counted in ticks of 0.1 s; time.sleep(d) advances the clock  *)
(*    by d, datetime.now() reads it.                                       *)
(*  - HealthCheck.check() is the probe collaborator.  The body in the      *)
(*    source is the demo stub (always True); the field `outcome` of a      *)
(*    HealthCheck names the implementation plugged in: "up" (the stub),    *)
(*    "down" (always False) or "flaky" (either, per call).                 *)
(*  - with several threads, a thread may be suspended between the steps of *)
(*    deploy() and inside the iteration of self.deployments, where an      *)
(*    insert by another thread makes the iterator raise RuntimeError.      *)
(*  - md5 is modelled by a positional encoding of its input that is        *)
(*    injective except for one pair of inputs whose real digests share     *)
(*    their first 8 hex digits; the truncation to 8 digits is kept.        *)
(*                                                                         *)
(* Specifications                                                          *)
(*  - Spec: histories of MaxCalls calls over configs that vary the key,    *)
(*    the health-check list and the strategy, and manual rollbacks.        *)
(*  - SpecSelect: histories of MaxSelectCalls calls of one application,    *)
(*    so that a rollback has several success records to select from.       *)
(*  - SpecIds: two deployments a long time apart, at wall-clock times      *)
(*    whose digest inputs collide.                                         *)
(*  - SpecMalformed: deployments of configs without name or version or     *)
(*    with a canary percentage of 150.                                     *)
(*  - SpecQuery: SpecSelect's deployments with the query methods called    *)
(*    between them.                                                        *)
(*  - SpecTermination: calls over health-check lists of every length, any  *)
(*    outcome per check, under weak fairness of the caller's thread.       *)
(*  - SpecStrategy: deployments of every strategy combination.             *)
(*  - SpecRace: two threads that deploy to one key once each.              *)
(*  - SpecKeys: two threads that deploy to distinct keys, the calls for one *)
(*    key one after the other.                                             *)
(*  - SpecCalc: divide() of aula-16/calculator.py on Python ints and floats. *)
(*  - SpecLimiter, FairSpecLimiter: RateLimiter of aula-6/challenge.py with *)
(*    tasks that begin at any time; the second with a fair event loop.     *)
(***************************************************************************)
EXTENDS Integers, Sequences, FiniteSets, TLC

(* ------------------------------ bounds -------------------------------- *)

\* number of top-level deploy()/rollback() calls explored
MaxCalls == 2

\* longest health-check list explored
MaxChecks == 2

(* ------------------------- program constants -------------------------- *)

\* hexdigest()[:8]
IdHexDigits == 8

\* HealthCheck defaults
DefaultExpectedStatus == 200

DefaultTimeout == 30

DefaultRetries == 3

\* one second in ticks (strftime("%S") resolution against sleep(0.1))
TicksPerSecond == 10

(* ------------------------------ enums --------------------------------- *)

DeploymentStatus == {"pending", "in_progress", "success", "failed", "rolled_back"}

Environment == {"development", "staging", "production"}

(* ----------------------------- Optional ------------------------------- *)

None == <<>>

Some(x) == <<x>>

\* Python truthiness of an Optional[str]: None and "" are false
TruthyStr(opt) == opt # None /\ opt[1] # ""

\* Python truthiness of an Optional[int]: None and 0 are false
TruthyInt(opt) == opt # None /\ opt[1] # 0

(* ------------------------------ inputs -------------------------------- *)

Threads == {1}

Apps == {"web", "api"}

Versions == {"1.0.0", "1.1.0"}

Endpoint(host, path) == <<"http://", host, path>>

HealthCheck(endpoint, outcome) ==
    [endpoint |-> endpoint, expected_status |-> DefaultExpectedStatus,
     timeout |-> DefaultTimeout, retries |-> DefaultRetries, outcome |-> outcome]

\* the i-th declared probe of an application
ProbePath(i) == <<"/health/", i>>

\* the path probed by a manual rollback
HealthPath == <<"/health">>

\* health-check lists: the i-th check probes ProbePath(i) and is up or down
CheckLists(app) ==
    UNION { { [i \in 1..n |-> HealthCheck(Endpoint(app, ProbePath(i)), o[i])] :
              o \in [1..n -> {"up", "down"}] } : n \in 0..MaxChecks }

DeploymentConfig(app, version, env, url, checks, rb, bg, canary) ==
    [application_name |-> app, version |-> version, environment |-> env,
     artifact_url |-> url, health_checks |-> checks, rollback_enabled |-> rb,
     blue_green |-> bg, canary_percentage |-> canary]

ArtifactUrl(app, version) == <<"s3://artifacts/", app, version>>

\* (application, environment) pairs deployed to
Keys == {<<"web", "staging">>, <<"web", "production">>, <<"api", "production">>}

\* a config with one flaky check, rolling strategy
FlakyConfig(app, env, version, rb) ==
    DeploymentConfig(app, version, env, ArtifactUrl(app, version),
                     <<HealthCheck(Endpoint(app, ProbePath(1)), "flaky")>>,
                     rb, FALSE, None)

\* configs that vary the key and the version, and rollback_enabled for one key
KeyConfigs ==
    { FlakyConfig(k[1], k[2], v, TRUE) : k \in Keys, v \in Versions }
    \cup { FlakyConfig("web", "production", v, FALSE) : v \in Versions }

\* configs that vary the health-check list
CheckConfigs ==
    { DeploymentConfig("web", "1.1.0", "production", ArtifactUrl("web", "1.1.0"),
                       cl, TRUE, FALSE, None) :
      cl \in CheckLists("web") }

\* configs that vary the strategy fields
StrategyConfigs ==
    { DeploymentConfig("web", "1.0.0", "production", ArtifactUrl("web", "1.0.0"),
                       <<HealthCheck(Endpoint("web", ProbePath(1)), "flaky")>>,
                       TRUE, s[1], s[2]) :
      s \in {<<TRUE, None>>, <<FALSE, Some(10)>>, <<TRUE, Some(10)>>, <<FALSE, Some(0)>>} }

Configs == KeyConfigs \cup CheckConfigs \cup StrategyConfigs

\* target_version arguments of rollback(): absent, a version, or the empty string
TargetVersions == {None, Some("")} \cup {Some(v) : v \in Versions}

\* (application, environment) pairs rolled back by hand
RollbackKeys == {<<"web", "staging">>, <<"web", "production">>}

(* ------------------------------ state --------------------------------- *)

VARIABLES
    records,               \* heap of DeploymentRecord objects, by reference
    deployments,           \* self.deployments: ordered dict id -> reference
    environment_versions,  \* self.environment_versions
    now,                   \* the wall clock, in ticks
    stack,                 \* per thread: the deploy() frames, innermost last
    call,                  \* per thread: the top-level call in progress or last made
    ret,                   \* per thread: how the last top-level call ended
    probes,                \* per record: the check() calls made for it
    ncalls,                \* top-level calls made
    rate_limiter,          \* aula-6: the RateLimiter object
    semaphores,            \* aula-6: heap of asyncio.Semaphore objects, by reference
    tasks,                 \* aula-6: per task, its position in rate_limited_task()
    division               \* aula-16 calculator: the divide() call and its outcome

\* the state of the deployment manager
manager == <<records, deployments, environment_versions, stack, call, ret, probes,
             ncalls>>

\* the state of the other programs of the repository
others == <<rate_limiter, semaphores, tasks, division>>

vars == <<records, deployments, environment_versions, now, stack, call, ret,
          probes, ncalls, rate_limiter, semaphores, tasks, division>>

(* --------------------------- pure helpers ----------------------------- *)

\* strftime("%Y-%m-%d %H:%M:%S"): the clock truncated to whole seconds
Stamp(t) == t \div TicksPerSecond

\* mutant: the newest entry is put first
add_log_newest_first(rec, t, message) ==
    [rec EXCEPT !.logs = <<<<Stamp(t), message>>>> \o @]

\* DeploymentRecord.add_log at clock value t: f"[{timestamp}] {message}"
add_log(rec, t, message) == [rec EXCEPT !.logs = Append(@, <<Stamp(t), message>>)]

DeploymentRecord(id, config, status, start_time) ==
    [id |-> id, config |-> config, status |-> status, start_time |-> start_time,
     end_time |-> None, logs |-> <<>>, error_message |-> None]

\* position of a string in the digest input
Code ==
    "web" :> 0 @@ "api" :> 1 @@ "1.0.0" :> 0 @@ "1.1.0" :> 1 @@ "" :> 2 @@
    "development" :> 0 @@ "staging" :> 1 @@ "production" :> 2

\* f"{application_name}-{version}-{environment.value}-{now.isoformat()}" as a number
DigestInput(config, t) ==
    ((t * 4 + Code[config.application_name]) * 4 + Code[config.version]) * 4
        + Code[config.environment]

RECURSIVE HexPrefix(_, _)
\* the low `digits` hex digits of n
HexPrefix(n, digits) ==
    IF digits = 0 THEN 0 ELSE (n % 16) + 16 * HexPrefix(n \div 16, digits - 1)

\* datetime.now() at tick 0
Epoch == "2025-01-01T01:53:28"

\* the tick of 2025-01-01T06:27:52.200000; the hex digests of
\*   md5("web-1.0.0-production-2025-01-01T01:53:28") and
\*   md5("web-1.0.0-production-2025-01-01T06:27:52.200000")
\* both begin with c64df39b
CollisionTick == 164642

\* hashlib.md5(data).hexdigest(), read as a number whose low hex digits are the digits
\* the id keeps: inputs differ in those digits unless their real digests agree in them
md5(n) ==
    IF n = DigestInput([application_name |-> "web", version |-> "1.0.0",
                        environment |-> "production"], CollisionTick)
    THEN DigestInput([application_name |-> "web", version |-> "1.0.0",
                      environment |-> "production"], 0)
    ELSE n

_generate_deployment_id(config) == HexPrefix(md5(DigestInput(config, now)), IdHexDigits)

(* dict operations on self.deployments: a sequence of [key, ref] in insertion order *)

DictHas(d, k) == \E i \in DOMAIN d : d[i].key = k

DictPos(d, k) == CHOOSE i \in DOMAIN d : d[i].key = k

\* d[k] = ref: an existing key keeps its position
DictSet(d, k, ref) ==
    IF DictHas(d, k) THEN [d EXCEPT ![DictPos(d, k)].ref = ref]
    ELSE Append(d, [key |-> k, ref |-> ref])

\* d.get(k), as a reference
DictGet(d, k) == IF DictHas(d, k) THEN Some(d[DictPos(d, k)].ref) ELSE None

\* list(d.values()) over heap h
Values(h, d) == [i \in DOMAIN d |-> h[d[i].ref]]

\* mutant: the earliest success record is taken, sorted(...)[0]
Latest_earliest(s) ==
    s[CHOOSE i \in DOMAIN s :
        /\ \A j \in DOMAIN s : s[i].start_time <= s[j].start_time
        /\ \A j \in DOMAIN s : j < i => s[i].start_time < s[j].start_time]


\* mutant: the success record inserted first is taken, without sorting
Latest_first_inserted(s) == s[1]


\* sorted(s, key=lambda x: x.start_time)[-1]: the sort is stable
Latest(s) ==
    s[CHOOSE i \in DOMAIN s :
        /\ \A j \in DOMAIN s : s[j].start_time <= s[i].start_time
        /\ \A j \in DOMAIN s : j > i => s[j].start_time < s[i].start_time]

\* mutant: the status of the deployments is not looked at
_get_previous_version_any_status(app_name, environment) ==
    LET successful_deployments ==
            SelectSeq(Values(records, deployments),
                      LAMBDA d : /\ d.config.application_name = app_name
                                 /\ d.config.environment = environment)
    IN  IF successful_deployments # <<>>
        THEN Some(Latest(successful_deployments).config.version)
        ELSE None

\* mutant: the environment of the deployments is not looked at
_get_previous_version_any_environment(app_name, environment) ==
    LET successful_deployments ==
            SelectSeq(Values(records, deployments),
                      LAMBDA d : /\ d.config.application_name = app_name
                                 /\ d.status = "success")
    IN  IF successful_deployments # <<>>
        THEN Some(Latest(successful_deployments).config.version)
        ELSE None

_get_previous_version(app_name, environment) ==
    LET successful_deployments ==
            SelectSeq(Values(records, deployments),
                      LAMBDA d : /\ d.config.application_name = app_name
                                 /\ d.config.environment = environment
                                 /\ d.status = "success")
    IN  IF successful_deployments # <<>>
        THEN Some(Latest(successful_deployments).config.version)
        ELSE None

\* mutant: the rollback config keeps the failing config's rollback_enabled
RollbackConfig_keeping_rollback(config, previous_version) ==
    DeploymentConfig(config.application_name, previous_version, config.environment,
                     <<"rollback://", previous_version>>, config.health_checks,
                     config.rollback_enabled, FALSE, None)

\* mutant: the rollback config keeps the failing config's version
RollbackConfig_same_version(config, previous_version) ==
    DeploymentConfig(config.application_name, config.version, config.environment,
                     <<"rollback://", previous_version>>, config.health_checks,
                     FALSE, FALSE, None)

\* mutant: the rollback config keeps the failing config's strategy
RollbackConfig_keeping_strategy(config, previous_version) ==
    DeploymentConfig(config.application_name, previous_version, config.environment,
                     <<"rollback://", previous_version>>, config.health_checks,
                     FALSE, config.blue_green, config.canary_percentage)


\* the config _auto_rollback builds
RollbackConfig(config, previous_version) ==
    DeploymentConfig(config.application_name, previous_version, config.environment,
                     <<"rollback://", previous_version>>, config.health_checks,
                     FALSE, FALSE, None)

\* the config rollback() builds; its HealthCheck is probed by whichever check() is
\* plugged in, so it may pass or fail
ManualRollbackConfig(app_name, environment, target_version) ==
    DeploymentConfig(app_name, target_version, environment,
                     <<"rollback://", target_version>>,
                     <<HealthCheck(Endpoint(app_name, HealthPath), "flaky")>>,
                     FALSE, FALSE, None)

\* mutant: the environment's mapping is replaced instead of updated
SetVersion_replacing(versions, config) ==
    [versions EXCEPT ![config.environment] =
        [a \in {config.application_name} |-> config.version]]

\* mutant: the version is recorded for the application in every environment
SetVersion_every_environment(versions, config) ==
    [env \in DOMAIN versions |->
        [a \in DOMAIN versions[env] \cup {config.application_name} |->
            IF a = config.application_name THEN config.version ELSE versions[env][a]]]


\* mutant: the version of an application already in the map is kept
SetVersion_keeping_entry(versions, config) ==
    IF config.application_name \in DOMAIN versions[config.environment]
    THEN versions
    ELSE [versions EXCEPT ![config.environment] =
            [a \in DOMAIN @ \cup {config.application_name} |-> config.version]]


\* self.environment_versions[env][app] = version
SetVersion(versions, config) ==
    [versions EXCEPT ![config.environment] =
        [a \in DOMAIN @ \cup {config.application_name} |->
            IF a = config.application_name THEN config.version ELSE @[a]]]

\* the results check() can give
check(health_check) ==
    CASE health_check.outcome = "up" -> {TRUE}
      [] health_check.outcome = "down" -> {FALSE}
      [] OTHER -> BOOLEAN

\* mutant: a config with both strategies set runs the canary procedure as well
RolloutSteps_both(config) ==
    (IF config.blue_green
     THEN << [message |-> <<"Executing blue-green deployment">>, sleep |-> 2],
             [message |-> <<"Blue environment ready, switching traffic">>, sleep |-> 1] >>
     ELSE << >>)
    \o (IF TruthyInt(config.canary_percentage)
        THEN << [message |-> <<"Starting canary deployment with ",
                               config.canary_percentage[1], "% traffic">>, sleep |-> 1],
                [message |-> <<"Canary deployment successful, rolling out to 100%">>,
                 sleep |-> 1] >>
        ELSE << >>)
    \o (IF ~config.blue_green /\ ~TruthyInt(config.canary_percentage)
        THEN << [message |-> <<"Executing rolling deployment">>, sleep |-> 2] >>
        ELSE << >>)

\* mutant: the canary percentage is looked at before blue_green
RolloutSteps_canary_first(config) ==
    IF TruthyInt(config.canary_percentage)
    THEN << [message |-> <<"Starting canary deployment with ",
                           config.canary_percentage[1], "% traffic">>, sleep |-> 1],
            [message |-> <<"Canary deployment successful, rolling out to 100%">>,
             sleep |-> 1] >>
    ELSE IF config.blue_green
    THEN << [message |-> <<"Executing blue-green deployment">>, sleep |-> 2],
            [message |-> <<"Blue environment ready, switching traffic">>, sleep |-> 1] >>
    ELSE << [message |-> <<"Executing rolling deployment">>, sleep |-> 2] >>


\* the steps of _execute_deployment before its last log: message, then sleep (ticks)
RolloutSteps(config) ==
    IF config.blue_green
    THEN << [message |-> <<"Executing blue-green deployment">>, sleep |-> 2],
            [message |-> <<"Blue environment ready, switching traffic">>, sleep |-> 1] >>
    ELSE IF TruthyInt(config.canary_percentage)
    THEN << [message |-> <<"Starting canary deployment with ",
                           config.canary_percentage[1], "% traffic">>, sleep |-> 1],
            [message |-> <<"Canary deployment successful, rolling out to 100%">>,
             sleep |-> 1] >>
    ELSE << [message |-> <<"Executing rolling deployment">>, sleep |-> 2] >>

RECURSIVE RunSteps(_, _, _)
\* log each step at the clock value it runs at
RunSteps(rec, steps, t) ==
    IF steps = <<>> THEN rec
    ELSE RunSteps(add_log(rec, t, Head(steps).message), Tail(steps), t + Head(steps).sleep)

RECURSIVE TotalSleep(_)
TotalSleep(steps) ==
    IF steps = <<>> THEN 0 ELSE Head(steps).sleep + TotalSleep(Tail(steps))

(* ------------------------------ frames -------------------------------- *)

\* a deploy() invocation: its locals and its position
Frame(deployment_id, ref) ==
    [deployment_id |-> deployment_id, record |-> ref, pc |-> "L140", i |-> 0,
     e |-> None, rollback_id |-> None]

Top(t) == stack[t][Len(stack[t])]

WithTop(s, f) == [s EXCEPT ![Len(s)] = f]

Pop(s) == SubSeq(s, 1, Len(s) - 1)

At(t, pc) == stack[t] # <<>> /\ Top(t).pc = pc

NoCall == [op |-> "none", args |-> <<>>, versions_before |-> [e \in Environment |-> <<>>],
           records_before |-> 0]

NoReturn == [kind |-> "none", value |-> None, error |-> None]

\* DeploymentManager(): no record, no version, and callers that have not called yet
Constructed(callers) ==
    /\ records = <<>>
    /\ deployments = <<>>
    /\ environment_versions = [env \in Environment |-> <<>>]
    /\ now = 0
    /\ stack = [t \in callers |-> <<>>]
    /\ call = [t \in callers |-> NoCall]
    /\ ret = [t \in callers |-> NoReturn]
    /\ probes = <<>>
    /\ ncalls = 0

\* no RateLimiter has been made
NoLimiter == rate_limiter = None /\ semaphores = <<>> /\ tasks = <<>>

\* divide() has not been called
NoDivision == division = None

Init == Constructed(Threads) /\ NoLimiter /\ NoDivision


(* ------------------------------ actions ------------------------------- *)

\* deploy(), lines 126-136: allocate the id and the record, insert it, log the intent,
\* on heap h and under the frames below
DeployEntry(t, config, h, below) ==
    LET deployment_id == _generate_deployment_id(config)
        ref == Len(h) + 1
        record == add_log(DeploymentRecord(deployment_id, config, "pending", now), now,
                          <<"Starting deployment of ", config.application_name, " v",
                            config.version>>)
    IN  /\ records' = Append(h, record)
        /\ deployments' = DictSet(deployments, deployment_id, ref)
        /\ probes' = Append(probes, <<>>)
        /\ stack' = [stack EXCEPT ![t] = Append(below, Frame(deployment_id, ref))]

\* mutant: deploy() returns the id of the rollback deployment when there was one
ReturnValue_of_rollback(frame) ==
    IF frame.rollback_id # None THEN frame.rollback_id[1] ELSE frame.deployment_id

\* the value deploy() returns (line 171)
ReturnValue(frame) == frame.deployment_id

\* return from the innermost deploy(): to the calling frame, or to the caller
Return(t) ==
    LET below == Pop(stack[t])
        value == ReturnValue(Top(t))
    IN  IF below = <<>>
        THEN /\ stack' = [stack EXCEPT ![t] = <<>>]
             /\ ret' = [ret EXCEPT ![t] = [kind |-> "return", value |-> Some(value),
                                           error |-> None]]
        ELSE /\ stack' = [stack EXCEPT ![t] =
                            WithTop(below, [below[Len(below)] EXCEPT
                                                !.rollback_id = Some(value)])]
             /\ UNCHANGED ret

Calling(op, args) ==
    [op |-> op, args |-> args, versions_before |-> environment_versions,
     records_before |-> Len(records)]

\* a caller invokes manager.deploy(config)
deploy(t, config) ==
    /\ stack[t] = <<>>
    /\ ncalls' = ncalls + 1
    /\ call' = [call EXCEPT ![t] = Calling("deploy", <<config>>)]
    /\ ret' = [ret EXCEPT ![t] = NoReturn]
    /\ DeployEntry(t, config, records, <<>>)
    /\ UNCHANGED <<environment_versions, now>>

\* mutant: the target is looked up in the history whatever the caller supplied
RollbackTarget_from_history(app_name, environment, target_version) ==
    _get_previous_version(app_name, environment)

\* lines 262-263: the version rollback() goes back to, as an Optional
RollbackTarget(app_name, environment, target_version) ==
    IF target_version = None
    THEN _get_previous_version(app_name, environment)
    ELSE target_version

\* a caller invokes manager.rollback(app_name, environment, target_version)
rollback(t, app_name, environment, target_version) ==
    /\ stack[t] = <<>>
    /\ ncalls' = ncalls + 1
    /\ call' = [call EXCEPT ![t] =
                  Calling("rollback", <<app_name, environment, target_version>>)]
    /\ LET target == RollbackTarget(app_name, environment, target_version)
       IN  IF ~TruthyStr(target)
           THEN /\ ret' = [ret EXCEPT ![t] =
                             [kind |-> "raise", value |-> None,
                              error |-> Some(<<"No target version found for rollback">>)]]
                /\ UNCHANGED <<records, deployments, probes, stack>>
           ELSE /\ ret' = [ret EXCEPT ![t] = NoReturn]
                /\ DeployEntry(t, ManualRollbackConfig(app_name, environment, target[1]),
                               records, <<>>)
    /\ UNCHANGED <<environment_versions, now>>

\* lines 140-141
SetInProgress(t) ==
    /\ At(t, "L140")
    /\ LET f == Top(t) IN
       /\ records' = [records EXCEPT ![f.record] =
                        add_log([@ EXCEPT !.status = "in_progress"], now,
                                <<"Deployment in progress...">>)]
       /\ stack' = [stack EXCEPT ![t] = WithTop(@, [f EXCEPT !.pc = "L144"])]
    /\ UNCHANGED <<deployments, environment_versions, now, call, ret, probes, ncalls>>

\* line 144, lines 173-194
_execute_deployment(t) ==
    /\ At(t, "L144")
    /\ LET f == Top(t)
           steps == RolloutSteps(records[f.record].config)
           done == now + TotalSleep(steps)
       IN  /\ records' = [records EXCEPT ![f.record] =
                            add_log(RunSteps(@, steps, now), done,
                                    <<"Application deployed successfully">>)]
           /\ now' = done
           /\ stack' = [stack EXCEPT ![t] = WithTop(@, [f EXCEPT !.pc = "L147"])]
    /\ UNCHANGED <<deployments, environment_versions, call, ret, probes, ncalls>>

\* line 147, lines 198-199
RunChecksBegin(t) ==
    /\ At(t, "L147")
    /\ LET f == Top(t) IN
       /\ records' = [records EXCEPT ![f.record] =
                        add_log(@, now, <<"Running health checks...">>)]
       /\ stack' = [stack EXCEPT ![t] = WithTop(@, [f EXCEPT !.pc = "L201", !.i = 0])]
    /\ UNCHANGED <<deployments, environment_versions, now, call, ret, probes, ncalls>>

\* what a failed check raises (line 205)
CheckFailure(health_check) == Some(<<"Health check failed for ", health_check.endpoint>>)

\* mutant: a failed check does not stop the loop
AfterCheck_continuing(f, health_check, ok) == [f EXCEPT !.i = @ + 1]

\* the frame after check number i+1 (0-based i) gave `ok`: lines 204-207
AfterCheck(f, health_check, ok) ==
    IF ~ok THEN [f EXCEPT !.pc = "L159", !.e = CheckFailure(health_check)]
    ELSE [f EXCEPT !.i = @ + 1]

\* one iteration of the loop of _run_health_checks, lines 201-207
RunCheck(t) ==
    /\ At(t, "L201")
    /\ LET f == Top(t)
           checks == records[f.record].config.health_checks
       IN  /\ f.i < Len(checks)
           /\ \E ok \in check(checks[f.i + 1]) :
                LET health_check == checks[f.i + 1]
                    asked == add_log(records[f.record], now,
                                     <<"Health check ", f.i + 1, ": ", health_check.endpoint>>)
                    g == AfterCheck(f, health_check, ok)
                IN  /\ probes' = [probes EXCEPT ![f.record] =
                                    Append(@, [i |-> f.i, ok |-> ok])]
                    /\ now' = now + 1
                    /\ records' = [records EXCEPT ![f.record] =
                                     IF g.pc = "L201"
                                     THEN add_log(asked, now + 1,
                                                  <<"Health check ", f.i + 1, " passed">>)
                                     ELSE asked]
                    /\ stack' = [stack EXCEPT ![t] = WithTop(@, g)]
    /\ UNCHANGED <<deployments, environment_versions, call, ret, ncalls>>

\* the loop is exhausted: line 209
RunChecksEnd(t) ==
    /\ At(t, "L201")
    /\ LET f == Top(t) IN
       /\ f.i >= Len(records[f.record].config.health_checks)
       /\ records' = [records EXCEPT ![f.record] =
                        add_log(@, now, <<"All health checks passed">>)]
       /\ stack' = [stack EXCEPT ![t] = WithTop(@, [f EXCEPT !.pc = "L150"])]
    /\ UNCHANGED <<deployments, environment_versions, now, call, ret, probes, ncalls>>

\* line 150
UpdateEnvironmentVersion(t) ==
    /\ At(t, "L150")
    /\ LET f == Top(t) IN
       /\ environment_versions' = SetVersion(environment_versions, records[f.record].config)
       /\ stack' = [stack EXCEPT ![t] = WithTop(@, [f EXCEPT !.pc = "L153"])]
    /\ UNCHANGED <<records, deployments, now, call, ret, probes, ncalls>>

\* mutant: success is recorded without the end time
Succeeded_without_end_time(rec, t) ==
    add_log([rec EXCEPT !.status = "success"], t, <<"Deployment completed successfully">>)

\* the record after lines 153-155
Succeeded(rec, t) ==
    add_log([rec EXCEPT !.status = "success", !.end_time = Some(t)], t,
            <<"Deployment completed successfully">>)

\* lines 153-157 and the return of line 171
MarkSuccess(t) ==
    /\ At(t, "L153")
    /\ LET f == Top(t) IN
       records' = [records EXCEPT ![f.record] = Succeeded(@, now)]
    /\ Return(t)
    /\ UNCHANGED <<deployments, environment_versions, now, call, probes, ncalls>>

\* mutant: the except clause does not store the error
Failed_without_message(rec, e, t) ==
    add_log([rec EXCEPT !.status = "failed", !.end_time = Some(t)],
            t, <<"Deployment failed: ", e[1]>>)

\* mutant: the except clause does not stamp the end of the deployment
Failed_without_end_time(rec, e, t) ==
    add_log([rec EXCEPT !.status = "failed", !.error_message = e],
            t, <<"Deployment failed: ", e[1]>>)


\* the record after the except clause, lines 160-163
Failed(rec, e, t) ==
    add_log([rec EXCEPT !.status = "failed", !.end_time = Some(t), !.error_message = e],
            t, <<"Deployment failed: ", e[1]>>)

\* mutant: a failed deployment is rolled back whatever its config says
WantsRollback_always(config) == TRUE

\* line 168: if config.rollback_enabled
WantsRollback(config) == config.rollback_enabled

\* except Exception as e: lines 159-168, and the return of line 171 without rollback
HandleFailure(t) ==
    /\ At(t, "L159")
    /\ LET f == Top(t) IN
       /\ records' = [records EXCEPT ![f.record] = Failed(@, f.e, now)]
       /\ IF WantsRollback(records[f.record].config)
          THEN /\ stack' = [stack EXCEPT ![t] = WithTop(@, [f EXCEPT !.pc = "L169"])]
               /\ UNCHANGED ret
          ELSE Return(t)
    /\ UNCHANGED <<deployments, environment_versions, now, call, probes, ncalls>>

\* lines 216-232 and 235-236 once _get_previous_version has read the table, up to the
\* nested deploy() being entered
RollBackToPrevious(t) ==
    /\ LET f == Top(t)
           config == records[f.record].config
           previous_version ==
               _get_previous_version(config.application_name, config.environment)
       IN  IF TruthyStr(previous_version)
           THEN /\ DeployEntry(t, RollbackConfig(config, previous_version[1]),
                               [records EXCEPT ![f.record] =
                                   add_log(@, now, <<"Auto-rolling back to version ",
                                                     previous_version[1]>>)],
                               WithTop(stack[t], [f EXCEPT !.pc = "L233"]))
                /\ UNCHANGED ret
           ELSE /\ records' = [records EXCEPT ![f.record] =
                                 add_log(@, now,
                                         <<"No previous version found for rollback">>)]
                /\ Return(t)
                /\ UNCHANGED <<deployments, probes>>
    /\ UNCHANGED <<environment_versions, now, call, ncalls>>

\* line 169 and _auto_rollback, lines 213-236, with no other thread running in between
_auto_rollback(t) == At(t, "L169") /\ RollBackToPrevious(t)

\* mutant: the failed record takes the status of its rollback deployment
AfterRollbackStatus_of_rollback(rollback_record) == rollback_record.status

\* the status _auto_rollback gives the failed record once the rollback deploy() returned
AfterRollbackStatus(rollback_record) == "rolled_back"

\* lines 233-234 and the return of line 171
FinishRollback(t) ==
    /\ At(t, "L233")
    /\ LET f == Top(t)
           rollback_record == records[DictGet(deployments, f.rollback_id[1])[1]]
       IN  records' = [records EXCEPT ![f.record] =
                         [add_log(@, now, <<"Rollback deployment: ", f.rollback_id[1]>>)
                            EXCEPT !.status = AfterRollbackStatus(rollback_record)]]
    /\ Return(t)
    /\ UNCHANGED <<deployments, environment_versions, now, call, probes, ncalls>>

\* the deploy() frames advance: one step of the call in progress
Step(t) ==
    \/ SetInProgress(t)
    \/ _execute_deployment(t)
    \/ RunChecksBegin(t)
    \/ RunCheck(t)
    \/ RunChecksEnd(t)
    \/ UpdateEnvironmentVersion(t)
    \/ MarkSuccess(t)
    \/ HandleFailure(t)
    \/ _auto_rollback(t)
    \/ FinishRollback(t)

Next ==
    \/ \E t \in Threads, config \in Configs :
          ncalls < MaxCalls /\ deploy(t, config) /\ UNCHANGED others
    \/ \E t \in Threads, k \in RollbackKeys, target_version \in TargetVersions :
          ncalls < MaxCalls /\ rollback(t, k[1], k[2], target_version) /\ UNCHANGED others
    \/ \E t \in Threads : SetInProgress(t) /\ UNCHANGED others
    \/ \E t \in Threads : _execute_deployment(t) /\ UNCHANGED others
    \/ \E t \in Threads : RunChecksBegin(t) /\ UNCHANGED others
    \/ \E t \in Threads : RunCheck(t) /\ UNCHANGED others
    \/ \E t \in Threads : RunChecksEnd(t) /\ UNCHANGED others
    \/ \E t \in Threads : UpdateEnvironmentVersion(t) /\ UNCHANGED others
    \/ \E t \in Threads : MarkSuccess(t) /\ UNCHANGED others
    \/ \E t \in Threads : HandleFailure(t) /\ UNCHANGED others
    \/ \E t \in Threads : _auto_rollback(t) /\ UNCHANGED others
    \/ \E t \in Threads : FinishRollback(t) /\ UNCHANGED others

Spec == Init /\ [][Next]_vars


(* ----------------- longer histories of one application ---------------- *)

\* top-level calls made in a history of SpecSelect
MaxSelectCalls == 3

\* configs of a history in which a rollback has several success records to choose from
SelectConfigs ==
    { FlakyConfig("web", "production", v, TRUE) : v \in Versions }
    \cup { FlakyConfig("web", "staging", "1.1.0", TRUE),
           FlakyConfig("api", "production", "1.1.0", TRUE) }

NextSelect ==
    \/ \E t \in Threads, config \in SelectConfigs :
          ncalls < MaxSelectCalls /\ deploy(t, config) /\ UNCHANGED others
    \/ \E t \in Threads :
          ncalls < MaxSelectCalls /\ rollback(t, "web", "production", None) /\ UNCHANGED others
    \/ \E t \in Threads : Step(t) /\ UNCHANGED others

SpecSelect == Init /\ [][NextSelect]_vars

(* ------------------------ calls run to their end ---------------------- *)

\* configs with a list of n checks, each of which may pass or fail
TerminationConfigs ==
    { DeploymentConfig("web", "1.1.0", "production", ArtifactUrl("web", "1.1.0"),
                       [i \in 1..n |-> HealthCheck(Endpoint("web", ProbePath(i)), "flaky")],
                       TRUE, FALSE, None) :
      n \in 0..MaxChecks }

NextTermination ==
    \/ \E t \in Threads, config \in TerminationConfigs :
          ncalls < MaxCalls /\ deploy(t, config) /\ UNCHANGED others
    \/ \E t \in Threads :
          ncalls < MaxCalls /\ rollback(t, "web", "production", None) /\ UNCHANGED others
    \/ \E t \in Threads : Step(t) /\ UNCHANGED others

\* deploy() is straight-line code on the caller's thread: its sleeps end and its
\* loops are over finite lists, so a call in progress takes its next step
SpecTermination ==
    Init /\ [][NextTermination]_vars
         /\ \A t \in Threads : WF_vars(Step(t) /\ UNCHANGED others)

(* ------------------------------ calculator ---------------------------- *)

(* src/aula-16/calculator.py.  A Python number is an int or a float, written as its
   type, its class (zero, finite, inf, nan), its sign and, when finite, the decimal
   exponent e of its magnitude 10^e: ints are unbounded, floats are IEEE doubles. *)

\* sys.float_info.max_10_exp: 10^308 is a float, 10^309 is not
FloatMaxExp == 308

\* the decimal exponent below which a float quotient underflows to zero
FloatMinExp == -323

Number(type, class, sign, exp) == [type |-> type, class |-> class, sign |-> sign, exp |-> exp]

PyInt(sign, exp) == Number("int", "finite", sign, exp)

PyFloat(sign, exp) == Number("float", "finite", sign, exp)

\* 0, False (an int), 0.0 and -0.0; 1, -1, 10, 10**400; 1.0, 1e308, 1e-308, inf, nan
Numbers ==
    { Number("int", "zero", 1, 0), Number("float", "zero", 1, 0),
      Number("float", "zero", -1, 0),
      PyInt(1, 0), PyInt(-1, 0), PyInt(1, 1), PyInt(1, 400),
      PyFloat(1, 0), PyFloat(-1, 308), PyFloat(1, -308),
      Number("float", "inf", 1, 0), Number("float", "nan", 1, 0) }

\* b == 0: true of 0, 0.0 and -0.0, false of nan and inf
EqualsZero(b) == b.class = "zero"

Raise(type, message) ==
    [kind |-> "raise", value |-> None, error |-> Some(<<type, message>>)]

ReturnNumber(x) == [kind |-> "return", value |-> Some(x), error |-> None]

\* float(x) of an int fits a float
Converts(x) == x.type = "float" \/ x.class = "zero" \/ x.exp <= FloatMaxExp

\* a / b of two floats, b not zero: IEEE division, which never raises
FloatQuotient(a, b) ==
    LET sign == a.sign * b.sign
        exp == a.exp - b.exp
    IN  CASE a.class = "nan" \/ b.class = "nan" -> Number("float", "nan", 1, 0)
          [] a.class = "inf" /\ b.class = "inf" -> Number("float", "nan", 1, 0)
          [] a.class = "inf" -> Number("float", "inf", sign, 0)
          [] b.class = "inf" \/ a.class = "zero" -> Number("float", "zero", sign, 0)
          [] exp > FloatMaxExp -> Number("float", "inf", sign, 0)
          [] exp < FloatMinExp -> Number("float", "zero", sign, 0)
          [] OTHER -> PyFloat(sign, exp)

\* a / b, b not zero: int / int is computed exactly and must fit a float; otherwise
\* an int operand is converted to float first
TrueDivide(a, b) ==
    IF a.type = "int" /\ b.type = "int"
    THEN IF a.class = "finite" /\ a.exp - b.exp > FloatMaxExp
         THEN Raise("OverflowError", "integer division result too large for a float")
         ELSE ReturnNumber(FloatQuotient(a, b))
    ELSE IF ~Converts(a) \/ ~Converts(b)
         THEN Raise("OverflowError", "int too large to convert to float")
         ELSE ReturnNumber(FloatQuotient(a, b))

\* mutant: divide without the test of b
divide_unchecked(a, b) ==
    IF EqualsZero(b) THEN Raise("ZeroDivisionError", "division by zero")
    ELSE TrueDivide(a, b)

\* divide(a, b), lines 18-22
divide(a, b) ==
    IF EqualsZero(b) THEN Raise("ValueError", "Cannot divide by zero")
    ELSE TrueDivide(a, b)

\* a caller is about to call divide(a, b)
InitCalc ==
    /\ Constructed(Threads)
    /\ NoLimiter
    /\ \E a \in Numbers, b \in Numbers :
          division = Some([a |-> a, b |-> b, outcome |-> NoReturn])

\* the call is made
Divide ==
    /\ division[1].outcome = NoReturn
    /\ division' = Some([division[1] EXCEPT !.outcome = divide(division[1].a, division[1].b)])
    /\ UNCHANGED <<manager, now, rate_limiter, semaphores, tasks>>

NextCalc == Divide

SpecCalc == InitCalc /\ [][NextCalc]_vars

(* ----------------------------- rate limiter --------------------------- *)

(* src/aula-6/challenge.py.  The tasks run on one asyncio event loop: a task runs from
   one await that suspends it to the next without interruption.  `async with
   self.lock` around lines 14-18 never suspends, as nothing awaits inside the block,
   so the lock is always free when a task reaches it.  asyncio.Semaphore is the
   standard library's: a counter and a FIFO queue of waiters; release() increments
   the counter and hands a permit to the first waiter that has not been woken.
   The clock is time.time() in ticks of 0.1 s; a task begins at any time, and once
   begun it runs as soon as it is ready. *)

\* tasks created by main()
MaxTasks == 3

\* largest tasks_per_second the limiter is made with
MaxPermits == 2

\* the clock value (ticks) the clock reaches while tasks have not begun
MaxTime == 12

\* asyncio.sleep(0.2), line 29, in ticks
WorkTicks == 2

\* the reset period of line 15: 1 second, in ticks
ResetTicks == 1 * TicksPerSecond

TaskIds == 1..MaxTasks

\* asyncio.Semaphore(value)
Semaphore(value) == [value |-> value, waiters |-> <<>>]

\* Semaphore.locked(): no permit left, or somebody is queued already
locked(sem) == sem.value = 0 \/ sem.waiters # <<>>

\* Semaphore._wake_up_next(): the first waiter not yet woken takes a permit
_wake_up_next(sem) ==
    IF \E k \in DOMAIN sem.waiters : ~sem.waiters[k].woken
    THEN LET k == CHOOSE k \in DOMAIN sem.waiters :
                     /\ ~sem.waiters[k].woken
                     /\ \A j \in 1..(k - 1) : sem.waiters[j].woken
         IN  [sem EXCEPT !.value = @ - 1, !.waiters[k].woken = TRUE]
    ELSE sem

\* Semaphore.release()
SemaphoreRelease(sem) == _wake_up_next([sem EXCEPT !.value = @ + 1])

\* a task: where it is in rate_limited_task, the semaphore it is queued on (0: none)
\* and the time its sleep ends
Task(pc, sem, wake) == [pc |-> pc, sem |-> sem, wake |-> wake]

\* RateLimiter(tasks_per_second), lines 6-10, and the tasks of lines 40-43, created
\* and not yet run
InitLimiter ==
    /\ Constructed(Threads)
    /\ NoDivision
    /\ \E n \in 1..MaxPermits :
          /\ rate_limiter = [semaphore |-> 1, tasks_per_second |-> n, last_check |-> 0]
          /\ semaphores = <<Semaphore(n)>>
    /\ tasks = [i \in TaskIds |-> Task("created", 0, 0)]

\* lines 14-18: after one second the limiter takes a fresh semaphore
Reset(limiter, sems, time) ==
    IF time - limiter.last_check >= ResetTicks
    THEN [limiter |-> [limiter EXCEPT !.semaphore = Len(sems) + 1, !.last_check = time],
          sems |-> Append(sems, Semaphore(limiter.tasks_per_second))]
    ELSE [limiter |-> limiter, sems |-> sems]

\* line 26: task i calls rate_limiter.acquire(), lines 12-20, and runs until it
\* suspends: queued on the semaphore, or holding a permit in the sleep of line 29
acquire(i) ==
    /\ tasks[i].pc = "created"
    /\ LET after == Reset(rate_limiter, semaphores, now)
           s == after.limiter.semaphore
       IN  /\ rate_limiter' = after.limiter
           /\ IF locked(after.sems[s])
              THEN /\ semaphores' = [after.sems EXCEPT ![s].waiters =
                                        Append(@, [task |-> i, woken |-> FALSE])]
                   /\ tasks' = [tasks EXCEPT ![i] = Task("queued", s, 0)]
              ELSE /\ semaphores' = [after.sems EXCEPT ![s].value = @ - 1]
                   /\ tasks' = [tasks EXCEPT ![i] = Task("working", 0, now + WorkTicks)]
    /\ UNCHANGED <<manager, now, division>>

\* a woken waiter resumes in Semaphore.acquire(): it leaves the queue, passes a spare
\* permit on, returns from acquire() and starts the sleep of line 29
Resume(i) ==
    /\ tasks[i].pc = "queued"
    /\ LET s == tasks[i].sem
           sem == semaphores[s]
           rest == SelectSeq(sem.waiters, LAMBDA w : w.task # i)
           left == [sem EXCEPT !.waiters = rest]
       IN  /\ \E k \in DOMAIN sem.waiters : sem.waiters[k].task = i /\ sem.waiters[k].woken
           /\ semaphores' = [semaphores EXCEPT ![s] =
                                IF left.value > 0 THEN _wake_up_next(left) ELSE left]
    /\ tasks' = [tasks EXCEPT ![i] = Task("working", 0, now + WorkTicks)]
    /\ UNCHANGED <<manager, now, rate_limiter, division>>

\* lines 30-33: the sleep is over; the task releases the limiter's current semaphore
\* and returns
release(i) ==
    /\ tasks[i].pc = "working"
    /\ now >= tasks[i].wake
    /\ semaphores' = [semaphores EXCEPT ![rate_limiter.semaphore] = SemaphoreRelease(@)]
    /\ tasks' = [tasks EXCEPT ![i] = Task("done", 0, 0)]
    /\ UNCHANGED <<manager, now, rate_limiter, division>>

\* task i is ready to run: its sleep is over, or it was handed a permit
Ready(i) ==
    \/ tasks[i].pc = "working" /\ tasks[i].wake <= now
    \/ /\ tasks[i].pc = "queued"
       /\ \E k \in DOMAIN semaphores[tasks[i].sem].waiters :
             LET w == semaphores[tasks[i].sem].waiters[k] IN w.task = i /\ w.woken

\* time passes once the event loop has run the tasks that were ready; tasks that have
\* not begun may begin at any time up to MaxTime, or later
Tick ==
    /\ \A i \in TaskIds : ~Ready(i)
    /\ now < MaxTime \/ \E i \in TaskIds : tasks[i].pc = "working"
    /\ now' = now + 1
    /\ UNCHANGED <<manager, rate_limiter, semaphores, tasks, division>>

NextLimiter ==
    \/ \E i \in TaskIds : acquire(i)
    \/ \E i \in TaskIds : Resume(i)
    \/ \E i \in TaskIds : release(i)
    \/ Tick

SpecLimiter == InitLimiter /\ [][NextLimiter]_vars

\* the event loop runs every task that is ready, and time passes
FairSpecLimiter ==
    /\ SpecLimiter
    /\ \A i \in TaskIds : WF_vars(acquire(i)) /\ WF_vars(Resume(i)) /\ WF_vars(release(i))
    /\ WF_vars(Tick)


(* ------------------------- deployment strategies ---------------------- *)

\* every combination of blue_green with an absent, zero or positive canary percentage
AllStrategyConfigs ==
    { DeploymentConfig("web", "1.0.0", "production", ArtifactUrl("web", "1.0.0"),
                       <<HealthCheck(Endpoint("web", ProbePath(1)), "flaky")>>,
                       TRUE, bg, canary) :
      bg \in BOOLEAN, canary \in {None, Some(0), Some(10)} }

NextStrategy ==
    \/ \E t \in Threads, config \in AllStrategyConfigs :
          ncalls < MaxCalls /\ deploy(t, config) /\ UNCHANGED others
    \/ \E t \in Threads : Step(t) /\ UNCHANGED others

SpecStrategy == Init /\ [][NextStrategy]_vars


(* ------------------------- views used by claims ----------------------- *)

\* get_deployment_status(id): the record, as an Optional
get_deployment_status(deployment_id) ==
    IF DictHas(deployments, deployment_id)
    THEN Some(records[DictGet(deployments, deployment_id)[1]])
    ELSE None

\* get_environment_status(): environments are keyed by their value already
get_environment_status == environment_versions

\* no call is in progress
Quiescent == \A t \in Threads : stack[t] = <<>>

\* references of the records the table holds
Table == {deployments[i].ref : i \in DOMAIN deployments}

SameKey(rec, app, env) ==
    rec.config.application_name = app /\ rec.config.environment = env

\* references of the success records of (app, env) among the first n objects
SuccessRefs(app, env, n) ==
    {r \in Table : r <= n /\ SameKey(records[r], app, env) /\ records[r].status = "success"}

\* versions of the success records of (app, env) with the latest start_time among refs
LatestVersions(refs) ==
    {records[r].config.version :
        r \in {x \in refs : \A y \in refs : records[y].start_time <= records[x].start_time}}

\* thread t's last top-level call was deploy(config) and has returned
Deployed(t) == stack[t] = <<>> /\ call[t].op = "deploy" /\ ret[t].kind = "return"

\* the record deploy() returned the id of
Returned(t) == get_deployment_status(ret[t].value[1])[1]

\* references of the records created since thread t's last call began
Created(t) == {r \in DOMAIN records : r > call[t].records_before}

\* a check() made for the record at r returned False
FailedProbe(r) == \E k \in DOMAIN probes[r] : ~probes[r][k].ok

\* message m is in the log of rec
Logged(rec, m) == \E k \in DOMAIN rec.logs : rec.logs[k][2] = m

(* --------------------------- several callers -------------------------- *)

\* threads that call one manager at the same time
Callers == {1, 2}

InitCallers == Constructed(Callers) /\ NoLimiter /\ NoDivision

\* lines 241-242: the comprehension starts to iterate self.deployments.values(); the
\* thread may be suspended between two items
IterateDeployments(t) ==
    /\ At(t, "L169")
    /\ stack' = [stack EXCEPT ![t] =
                    WithTop(@, [Top(t) EXCEPT !.pc = "L241", !.i = Len(deployments)])]
    /\ UNCHANGED <<records, deployments, environment_versions, now, call, ret, probes,
                   ncalls>>

\* the iteration goes on after another thread inserted a record: the dict iterator
\* raises RuntimeError, which leaves _auto_rollback, the except clause and deploy()
IterationRaises(t) ==
    /\ At(t, "L241")
    /\ Len(deployments) # Top(t).i
    /\ stack' = [stack EXCEPT ![t] = <<>>]
    /\ ret' = [ret EXCEPT ![t] =
                 [kind |-> "raise", value |-> None,
                  error |-> Some(<<"dictionary changed size during iteration">>)]]
    /\ UNCHANGED <<records, deployments, environment_versions, now, call, probes, ncalls>>

\* the iteration ends over a table of unchanged size
IterationEnds(t) ==
    /\ At(t, "L241")
    /\ Len(deployments) = Top(t).i
    /\ RollBackToPrevious(t)

\* every caller's last call has returned or raised
AllReturned == \A t \in Callers : stack[t] = <<>>

\* two records were being deployed at the same time
Overlap(a, b) ==
    /\ a # b
    /\ records[a].end_time = None \/ records[b].start_time < records[a].end_time[1]
    /\ records[b].end_time = None \/ records[a].start_time < records[b].end_time[1]

(* two callers deploy to one (application, environment) with nothing to serialize
   them: each calls deploy() once, at any time *)

RaceConfigs == { FlakyConfig("web", "production", v, TRUE) : v \in Versions }

NextRace ==
    \/ \E t \in Callers, config \in RaceConfigs :
          call[t] = NoCall /\ deploy(t, config) /\ UNCHANGED others
    \/ \E t \in Callers : Step(t) /\ UNCHANGED others
    \/ \E t \in Callers : IterateDeployments(t) /\ UNCHANGED others
    \/ \E t \in Callers : IterationRaises(t) /\ UNCHANGED others
    \/ \E t \in Callers : IterationEnds(t) /\ UNCHANGED others

SpecRace == InitCallers /\ [][NextRace]_vars

(* callers deploy at the same time to distinct (application, environment) keys; the
   calls for one key come one after the other *)

\* top-level calls made in a history of SpecKeys
MaxKeyCalls == 3

\* no call for the key of config is in progress
KeyFree(config) ==
    \A t \in Callers :
        stack[t] # <<>> =>
            ~SameKey(records[stack[t][1].record], config.application_name,
                     config.environment)

KeyedConfigs == { FlakyConfig(app, "production", "1.0.0", TRUE) : app \in Apps }

NextKeys ==
    \/ \E t \in Callers, config \in KeyedConfigs :
          /\ ncalls < MaxKeyCalls
          /\ KeyFree(config)
          /\ deploy(t, config)
          /\ UNCHANGED others
    \/ \E t \in Callers : Step(t) /\ UNCHANGED others
    \/ \E t \in Callers : IterateDeployments(t) /\ UNCHANGED others
    \/ \E t \in Callers : IterationRaises(t) /\ UNCHANGED others
    \/ \E t \in Callers : IterationEnds(t) /\ UNCHANGED others

SpecKeys == InitCallers /\ [][NextKeys]_vars


(* ------------------- deployments a long time apart -------------------- *)

\* wall-clock times (ticks) at which the caller deploys, besides right away
DeployTimes == {CollisionTick}

\* configs deployed in SpecIds
IdConfigs == { FlakyConfig("web", "production", v, TRUE) : v \in Versions }

\* between two calls, time passes until the next time the caller deploys at
Idle(tick) ==
    /\ Quiescent
    /\ tick > now
    /\ now' = tick
    /\ UNCHANGED <<records, deployments, environment_versions, stack, call, ret, probes,
                   ncalls>>

NextIds ==
    \/ \E t \in Threads, config \in IdConfigs :
          ncalls < MaxCalls /\ deploy(t, config) /\ UNCHANGED others
    \/ \E tick \in DeployTimes : ncalls < MaxCalls /\ Idle(tick) /\ UNCHANGED others
    \/ \E t \in Threads : Step(t) /\ UNCHANGED others

SpecIds == Init /\ [][NextIds]_vars


(* -------------------------- malformed configs ------------------------- *)

\* a config with one flaky check and the given name, version and canary percentage
CanaryConfig(app, version, canary) ==
    DeploymentConfig(app, version, "production", ArtifactUrl(app, version),
                     <<HealthCheck(Endpoint(app, ProbePath(1)), "flaky")>>,
                     TRUE, FALSE, canary)

\* configs without application name, without version, with a canary percentage of 150
MalformedConfigs ==
    { CanaryConfig("", "1.1.0", None),
      CanaryConfig("web", "", None),
      CanaryConfig("web", "1.1.0", Some(150)) }

NextMalformed ==
    \/ \E t \in Threads, config \in MalformedConfigs \cup IdConfigs :
          ncalls < MaxCalls /\ deploy(t, config) /\ UNCHANGED others
    \/ \E t \in Threads : Step(t) /\ UNCHANGED others

SpecMalformed == Init /\ [][NextMalformed]_vars


(* ------------------------------ queries ------------------------------- *)

\* sorted(s, key=lambda x: x.start_time, reverse=True): an element comes after the
\* elements that start later and, the sort being stable, after the earlier-placed
\* elements that start at the same time
SortedNewestFirst(s) ==
    LET place(i) ==
            1 + Cardinality({j \in DOMAIN s :
                                \/ s[j].start_time > s[i].start_time
                                \/ s[j].start_time = s[i].start_time /\ j < i})
    IN  [k \in DOMAIN s |-> s[CHOOSE i \in DOMAIN s : place(i) = k]]

\* mutant: the sort is ascending
list_deployments_oldest_first(app_name, environment) ==
    LET all == Values(records, deployments)
        of_app == IF TruthyStr(app_name)
                  THEN SelectSeq(all, LAMBDA d : d.config.application_name = app_name[1])
                  ELSE all
        of_env == IF environment # None
                  THEN SelectSeq(of_app, LAMBDA d : d.config.environment = environment[1])
                  ELSE of_app
        newest_first == SortedNewestFirst(of_env)
    IN  [i \in DOMAIN newest_first |-> newest_first[Len(newest_first) + 1 - i]]

\* list_deployments(app_name, environment), both Optional: `if app_name:` skips an
\* empty string, `if environment:` skips None only (enum members are truthy)
list_deployments(app_name, environment) ==
    LET all == Values(records, deployments)
        of_app == IF TruthyStr(app_name)
                  THEN SelectSeq(all, LAMBDA d : d.config.application_name = app_name[1])
                  ELSE all
        of_env == IF environment # None
                  THEN SelectSeq(of_app, LAMBDA d : d.config.environment = environment[1])
                  ELSE of_app
    IN  SortedNewestFirst(of_env)

\* datetime.isoformat() of a tick, when there is one
IsoFormat(opt) == IF opt = None THEN None ELSE Some(<<Epoch, "+", opt[1]>>)

\* DeploymentRecord.to_dict
to_dict(rec) ==
    [id |-> rec.id, application |-> rec.config.application_name,
     version |-> rec.config.version, environment |-> rec.config.environment,
     status |-> rec.status, start_time |-> IsoFormat(Some(rec.start_time)),
     end_time |-> IsoFormat(rec.end_time), logs |-> rec.logs,
     error_message |-> rec.error_message]

\* export_deployment_history(): the dict that json.dumps writes out
export_deployment_history ==
    LET all == Values(records, deployments)
    IN  [deployments |-> [i \in DOMAIN all |-> to_dict(all[i])],
         environment_versions |-> environment_versions,
         exported_at |-> IsoFormat(Some(now))]

QueryOps ==
    {"get_deployment_status", "list_deployments", "get_environment_status",
     "export_deployment_history"}

\* an id that no digest gives
UnknownId == -1

\* app_name arguments of list_deployments(): absent, empty, an application
AppFilters == {None, Some(""), Some("web")}

\* environment arguments of list_deployments(): absent, an environment
EnvFilters == {None, Some("production")}

\* the queries a caller makes: operation and arguments
Queries ==
    {<<"get_deployment_status", <<id>>>> :
        id \in {deployments[i].key : i \in DOMAIN deployments \cap {1}} \cup {UnknownId}}
    \cup {<<"list_deployments", <<a, env>>>> : a \in AppFilters, env \in EnvFilters}
    \cup {<<"get_environment_status", <<>>>>, <<"export_deployment_history", <<>>>>}

\* what the query returns
Answer(op, args) ==
    CASE op = "get_deployment_status" -> get_deployment_status(args[1])
      [] op = "list_deployments" -> list_deployments(args[1], args[2])
      [] op = "get_environment_status" -> get_environment_status
      [] op = "export_deployment_history" -> export_deployment_history

\* mutant: a query leaves the table in the order of its answer
Query_sorting_table(t, op, args) ==
    /\ stack[t] = <<>>
    /\ call' = [call EXCEPT ![t] = Calling(op, args)]
    /\ ret' = [ret EXCEPT ![t] = [kind |-> "return", value |-> Some(Answer(op, args)),
                                  error |-> None]]
    /\ deployments' =
          LET newest_first == SortedNewestFirst(Values(records, deployments))
          IN  [i \in DOMAIN newest_first |->
                  [key |-> newest_first[i].id,
                   ref |-> DictGet(deployments, newest_first[i].id)[1]]]
    /\ UNCHANGED <<records, environment_versions, now, stack, probes, ncalls>>

\* a caller invokes one of the query methods, lines 275-306, between two calls
Query(t, op, args) ==
    /\ stack[t] = <<>>
    /\ call' = [call EXCEPT ![t] = Calling(op, args)]
    /\ ret' = [ret EXCEPT ![t] = [kind |-> "return", value |-> Some(Answer(op, args)),
                                  error |-> None]]
    /\ UNCHANGED <<records, deployments, environment_versions, now, stack, probes, ncalls>>

NextQuery ==
    \/ \E t \in Threads, config \in SelectConfigs :
          ncalls < MaxSelectCalls /\ deploy(t, config) /\ UNCHANGED others
    \/ \E t \in Threads : Step(t) /\ UNCHANGED others
    \/ \E t \in Threads, q \in Queries : Query(t, q[1], q[2]) /\ UNCHANGED others

SpecQuery == Init /\ [][NextQuery]_vars


(* ------------------------------- claims ------------------------------- *)

\* C1: between calls, for every environment and application the version map holds the
\* version of the success record with the latest start_time of that pair, and holds no
\* entry when the pair has no success record.
C1_VersionMapConsistent ==
    Quiescent =>
        \A env \in Environment, app \in Apps :
            LET refs == SuccessRefs(app, env, Len(records))
            IN  IF refs = {}
                THEN app \notin DOMAIN get_environment_status[env]
                ELSE /\ app \in DOMAIN get_environment_status[env]
                     /\ LatestVersions(refs) = {get_environment_status[env][app]}

\* C1 witness: a rolled-back deployment of 1.1.0 left the map at the older 1.0.0, which a
\* later success record (the rollback) carries.
C1_Witness ==
    /\ Quiescent
    /\ "web" \in DOMAIN environment_versions["production"]
    /\ environment_versions["production"]["web"] = "1.0.0"
    /\ \E r \in Table : /\ SameKey(records[r], "web", "production")
                        /\ records[r].status = "rolled_back"
                        /\ records[r].config.version = "1.1.0"
    /\ Cardinality(SuccessRefs("web", "production", Len(records))) = 2


\* the config thread t's last deploy() was called with
Arg(t) == call[t].args[1]

\* reference of the record deploy() returned the id of
ReturnedRef(t) == DictGet(deployments, ret[t].value[1])[1]

\* success records of the called config's (application, environment) when the call began
PriorSuccess(t) ==
    SuccessRefs(Arg(t).application_name, Arg(t).environment, call[t].records_before)

\* a record created after the returned one carries the rolled-back-to version, with
\* rollback disabled, and succeeded
RollbackSucceeded(t) ==
    \E r \in Created(t) :
        /\ r # ReturnedRef(t)
        /\ {records[r].config.version} = LatestVersions(PriorSuccess(t))
        /\ ~records[r].config.rollback_enabled
        /\ records[r].status = "success"

\* C2 as stated: deploy() with rollback_enabled and a health check that always fails, a
\* prior success record existing for the pair, ends with the original record rolled_back
\* and a new record of the prior version, rollback disabled, with status success.
C2_AlwaysFailingCheckRollsBackToSuccess ==
    \A t \in Threads :
        ( /\ Deployed(t)
          /\ Arg(t).rollback_enabled
          /\ \E k \in DOMAIN Arg(t).health_checks : Arg(t).health_checks[k].outcome = "down"
          /\ PriorSuccess(t) # {} )
        => /\ Returned(t).status = "rolled_back"
           /\ RollbackSucceeded(t)

\* C2 amended: deploy() with rollback_enabled in which a health check fails, a prior
\* success record existing for the pair, and the checks passing when re-run for the
\* rollback deployment, ends with the original record rolled_back and a new record of the
\* prior version, rollback disabled, with status success.
C2_FailedCheckRollsBackToSuccess ==
    \A t \in Threads :
        ( /\ Deployed(t)
          /\ Arg(t).rollback_enabled
          /\ FailedProbe(ReturnedRef(t))
          /\ PriorSuccess(t) # {}
          /\ \A r \in Created(t) : r # ReturnedRef(t) => ~FailedProbe(r) )
        => /\ Returned(t).status = "rolled_back"
           /\ RollbackSucceeded(t)

\* C2 witness: 1.1.0 failed its check, was rolled back to 1.0.0 and the rollback passed.
C2_Witness ==
    \E t \in Threads :
        /\ Deployed(t)
        /\ Arg(t).rollback_enabled
        /\ Arg(t).version = "1.1.0"
        /\ FailedProbe(ReturnedRef(t))
        /\ Returned(t).status = "rolled_back"
        /\ \E r \in Created(t) : /\ records[r].config.version = "1.0.0"
                                 /\ records[r].status = "success"
                                 /\ probes[r] # <<>>

\* C3: a record with status rolled_back has a rollback record, the one its log names,
\* of the same application and environment, with rollback disabled and status success.
C3_RolledBackOnlyAfterSuccessfulRollback ==
    \A r \in Table :
        records[r].status = "rolled_back" =>
            \E k \in DOMAIN records[r].logs :
                LET m == records[r].logs[k][2] IN
                /\ m[1] = "Rollback deployment: "
                /\ get_deployment_status(m[2]) # None
                /\ LET rb == get_deployment_status(m[2])[1] IN
                   /\ SameKey(rb, records[r].config.application_name,
                              records[r].config.environment)
                   /\ ~rb.config.rollback_enabled
                   /\ rb.status = "success"

\* C4: a deploy() call ends by returning the id of a record, whatever the health checks
\* did, and every record of the call one of whose checks failed (the nested rollback's
\* included) is failed or rolled_back and carries an error message.
C4_DeployReturnsAndRecordsFailure ==
    \A t \in Threads :
        (stack[t] = <<>> /\ call[t].op = "deploy") =>
            /\ ret[t].kind = "return"
            /\ ret[t].value # None
            /\ get_deployment_status(ret[t].value[1]) # None
            /\ \A r \in Created(t) :
                   FailedProbe(r) =>
                       /\ records[r].status \in {"failed", "rolled_back"}
                       /\ records[r].error_message # None
                       /\ records[r].end_time # None

\* C4 witness: both the deployment and its nested rollback deployment failed a check, and
\* deploy() returned.
C4_Witness ==
    \E t \in Threads :
        /\ Deployed(t)
        /\ Cardinality(Created(t)) = 2
        /\ \A r \in Created(t) : FailedProbe(r) /\ records[r].error_message # None

\* C5: deploy(config) returns the id of the record created for config itself, the first
\* record of the call: get_deployment_status finds it and its config is config, also
\* when an auto-rollback created a second record.
C5_ReturnsOwnRecord ==
    \A t \in Threads :
        (stack[t] = <<>> /\ call[t].op = "deploy") =>
            /\ ret[t].kind = "return"
            /\ get_deployment_status(ret[t].value[1]) # None
            /\ Returned(t).config.version = Arg(t).version
            /\ Returned(t).config = Arg(t)
            /\ ReturnedRef(t) = call[t].records_before + 1

\* C5 witness: the call created a rollback record of another version, and returned.
C5_Witness ==
    \E t \in Threads :
        /\ Deployed(t)
        /\ \E r \in Created(t) : /\ r # ReturnedRef(t)
                                 /\ records[r].config.version # Arg(t).version


\* the record's log holds the entry _auto_rollback writes when it found a target
AutoRolledBack(rec) ==
    \E k \in DOMAIN rec.logs : rec.logs[k][2][1] = "Auto-rolling back to version "

\* C6: a deploy() call creates at most two records, a rollback() call at most one; a
\* deploy() that auto-rolled back has created exactly one record besides its own, with
\* rollback disabled; and a record with rollback disabled never starts a rollback: it is
\* never rolled_back, never logs one, and deploy() is never nested deeper than one level.
C6_RollbackBound ==
    /\ \A t \in Threads :
        /\ Len(stack[t]) <= 2
        /\ call[t].op = "rollback" => Cardinality(Created(t)) <= 1
        /\ call[t].op = "deploy" =>
              /\ Cardinality(Created(t)) <= 2
              /\ \A r \in Created(t) :
                    r > call[t].records_before + 1 => ~records[r].config.rollback_enabled
        /\ (Deployed(t) /\ AutoRolledBack(Returned(t))) =>
              \E r \in Created(t) :
                  /\ r # ReturnedRef(t)
                  /\ Created(t) = {ReturnedRef(t), r}
                  /\ ~records[r].config.rollback_enabled
    /\ \A r \in DOMAIN records :
        ~records[r].config.rollback_enabled =>
            /\ records[r].status # "rolled_back"
            /\ ~AutoRolledBack(records[r])
            /\ \A t \in Threads : \A d \in DOMAIN stack[t] :
                  stack[t][d].record = r => stack[t][d].pc \notin {"L169", "L233"}

\* C6 witness: the rollback deployment of an auto-rollback failed its own check, and
\* the call ended with just the two records.
C6_Witness ==
    \E t \in Threads :
        /\ Deployed(t)
        /\ AutoRolledBack(Returned(t))
        /\ \E r \in Created(t) : /\ ~records[r].config.rollback_enabled
                                 /\ records[r].status = "failed"
                                 /\ r = Len(records)

StatusSteps ==
    { <<"pending", "in_progress">>, <<"in_progress", "success">>,
      <<"in_progress", "failed">>, <<"failed", "rolled_back">> }

\* C7: a record starts pending; its status only ever steps pending -> in_progress,
\* in_progress -> success, in_progress -> failed or failed -> rolled_back; and it steps to
\* rolled_back only with rollback enabled, after the auto-rollback found a target: a
\* success record of the same application and environment.
C7_StatusTransitions ==
    [][ /\ \A r \in DOMAIN records :
            records'[r].status # records[r].status =>
                /\ <<records[r].status, records'[r].status>> \in StatusSteps
                /\ records'[r].status = "rolled_back" =>
                      /\ records[r].config.rollback_enabled
                      /\ AutoRolledBack(records[r])
                      /\ \E p \in Table :
                            /\ p < r
                            /\ SameKey(records[p], records[r].config.application_name,
                                       records[r].config.environment)
                            /\ records[p].status = "success"
        /\ \A r \in DOMAIN records' :
            r \notin DOMAIN records => records'[r].status = "pending"
      ]_vars

\* C7 witness: a record went through failed to rolled_back while its rollback succeeded.
C7_Witness ==
    \E r \in DOMAIN records :
        /\ records[r].status = "rolled_back"
        /\ r < Len(records)
        /\ records[r + 1].status = "success"
        /\ Quiescent

\* C8: the checks of a record are probed in declared order, each at most once; a failed
\* check is the last one probed; the record then ends failed or rolled_back, and its
\* error names the endpoint of the failed check.
C8_FailFast ==
    \A r \in DOMAIN records :
        LET p == probes[r]
            checks == records[r].config.health_checks
        IN  /\ Len(p) <= Len(checks)
            /\ \A k \in DOMAIN p : p[k].i = k - 1
            /\ \A k \in DOMAIN p :
                  ~p[k].ok =>
                      /\ k = Len(p)
                      /\ records[r].status \in {"in_progress", "failed", "rolled_back"}
                      /\ Quiescent => records[r].status \in {"failed", "rolled_back"}
                      /\ records[r].status # "in_progress" =>
                            records[r].error_message =
                                Some(<<"Health check failed for ", checks[k].endpoint>>)

\* C8 witness: the first of two checks failed, the second was never probed, and the record
\* ended failed.
C8_Witness ==
    \E r \in DOMAIN records :
        /\ Len(records[r].config.health_checks) = 2
        /\ Len(probes[r]) = 1
        /\ ~probes[r][1].ok
        /\ records[r].status = "failed"

\* C9: rollback(app, env) called without target_version while (app, env) has no success
\* record raises to the caller, and the step changes neither the record table nor the
\* version map.
C9_ManualRollbackWithoutTargetRaises ==
    [][ \A t \in Threads :
            ( /\ stack[t] = <<>>
              /\ ncalls' # ncalls
              /\ call'[t].op = "rollback"
              /\ call'[t].args[3] = None
              /\ SuccessRefs(call'[t].args[1], call'[t].args[2], Len(records)) = {} )
            => /\ ret'[t].kind = "raise"
               /\ ret'[t].error # None
               /\ stack'[t] = <<>>
               /\ UNCHANGED <<records, deployments, environment_versions, probes>>
      ]_vars

\* C9 witness: rollback("web", production) raised although a failed record of that pair
\* exists.
C9_Witness ==
    \E t \in Threads :
        /\ call[t].op = "rollback"
        /\ call[t].args = <<"web", "production", None>>
        /\ ret[t].kind = "raise"
        /\ \E r \in Table : /\ SameKey(records[r], "web", "production")
                            /\ records[r].status = "failed"

\* C10: a deploy() with rollback enabled that fails a check while its application and
\* environment have no success record returns, has created only its own record, leaves
\* it failed, logs that no previous version was found, and leaves the version map as it
\* was.
C10_MissingRollbackTargetAbsorbed ==
    \A t \in Threads :
        ( /\ stack[t] = <<>>
          /\ call[t].op = "deploy"
          /\ Arg(t).rollback_enabled
          /\ FailedProbe(call[t].records_before + 1)
          /\ PriorSuccess(t) = {} )
        => /\ ret[t].kind = "return"
           /\ Created(t) = {call[t].records_before + 1}
           /\ ReturnedRef(t) = call[t].records_before + 1
           /\ Returned(t).status = "failed"
           /\ Logged(Returned(t), <<"No previous version found for rollback">>)
           /\ environment_versions = call[t].versions_before

\* C10 witness: web failed in staging with rollback enabled while its only success
\* record is in production.
C10_Witness ==
    \E t \in Threads :
        /\ Deployed(t)
        /\ Arg(t).rollback_enabled
        /\ Arg(t).application_name = "web"
        /\ Arg(t).environment = "staging"
        /\ FailedProbe(ReturnedRef(t))
        /\ PriorSuccess(t) = {}
        /\ Returned(t).status = "failed"
        /\ SuccessRefs("web", "production", Len(records)) # {}

\* the step creates a record for a rollback whose target the code selected: the nested
\* deploy() of _auto_rollback, or rollback() called without target_version
SelectsTarget(t) ==
    /\ Len(records') = Len(records) + 1
    /\ records'[Len(records')].config.artifact_url[1] = "rollback://"
    /\ ~(stack[t] = <<>> /\ call'[t].op = "rollback" /\ call'[t].args[3] # None)

\* C11: the version an auto-rollback, or a manual rollback without target_version,
\* deploys is the version of a record that, at that moment, is a success record of the
\* same application and environment and has the latest start_time among those; records
\* of other applications or environments and records that are not success are not
\* selected.
C11_RollbackSelectsLatestSuccess ==
    [][\A t \in Threads :
          SelectsTarget(t) =>
              LET config == records'[Len(records')].config
              IN  config.version \in
                      LatestVersions(SuccessRefs(config.application_name,
                                                 config.environment, Len(records)))]_vars

\* C11 witness: web has two success records of different versions in production; the
\* auto-rollback of a third, failed production deployment deployed the version of the
\* later one.
C11_Witness ==
    \E a, b, r \in DOMAIN records :
        /\ a < b /\ b < r
        /\ records[a].status = "success" /\ SameKey(records[a], "web", "production")
        /\ records[b].status = "success" /\ SameKey(records[b], "web", "production")
        /\ records[a].start_time < records[b].start_time
        /\ records[a].config.version # records[b].config.version
        /\ SameKey(records[r], "web", "production")
        /\ records[r].config.artifact_url[1] = "rollback://"
        /\ records[r].config.health_checks[1].endpoint[3] = ProbePath(1)
        /\ records[r].config.version = records[b].config.version
        /\ records[r - 1].status = "rolled_back"

\* the step is the deploy() call _auto_rollback makes from thread t's innermost frame
NestedDeploy(t) == stack[t] # <<>> /\ Len(stack'[t]) = Len(stack[t]) + 1

\* C12: the config of the deployment an auto-rollback makes is the failing config with
\* the version replaced by the rollback target, the artifact reference derived from the
\* target, rollback_enabled false and the rolling strategy (blue_green false, no canary
\* percentage); application_name, environment and the health-check list are the failing
\* config's.
C12_RollbackConfigDerivation ==
    [][\A t \in Threads :
          NestedDeploy(t) =>
              LET failing == records[Top(t).record].config
                  target == _get_previous_version(failing.application_name,
                                                  failing.environment)
                  new == records'[Len(records')].config
              IN  /\ target # None
                  /\ new = [failing EXCEPT !.version = target[1],
                                           !.artifact_url = <<"rollback://", target[1]>>,
                                           !.rollback_enabled = FALSE,
                                           !.blue_green = FALSE,
                                           !.canary_percentage = None]
                  /\ new.application_name = failing.application_name
                  /\ new.environment = failing.environment
                  /\ new.health_checks = failing.health_checks]_vars

\* C12 witness: a blue-green deployment with a canary percentage failed and was rolled
\* back by a rolling deployment of another version.
C12_Witness ==
    \E r \in DOMAIN records :
        /\ r > 1
        /\ records[r - 1].status = "rolled_back"
        /\ records[r - 1].config.blue_green
        /\ records[r - 1].config.canary_percentage = Some(10)
        /\ records[r].config.artifact_url[1] = "rollback://"
        /\ records[r].config.version # records[r - 1].config.version
        /\ ~records[r].config.blue_green
        /\ records[r].config.canary_percentage = None
        /\ Logged(records[r], <<"Executing rolling deployment">>)

\* thread t's call in progress or last made is rollback() with a target_version
RollbackTo(t) == call[t].op = "rollback" /\ call[t].args[3] # None

\* the rollback() of thread t created a record for its application and environment
\* with the target_version it was called with
DeploysSuppliedTarget(t) ==
    /\ ret[t].kind # "raise"
    /\ Len(records) > call[t].records_before
    /\ LET rec == records[call[t].records_before + 1]
       IN  /\ rec.config.version = call[t].args[3][1]
           /\ SameKey(rec, call[t].args[1], call[t].args[2])
           /\ get_deployment_status(rec.id) # None

\* C13 as stated: whenever a target_version is supplied to rollback(), a new record is
\* created whose config.version is the supplied target_version, whatever the history.
C13_SuppliedTargetDeployed ==
    \A t \in Threads : RollbackTo(t) => DeploysSuppliedTarget(t)

\* C13 amended: whenever a non-empty target_version is supplied to rollback(), a new
\* record is created whose config.version is the supplied target_version, whatever the
\* history.
C13_NonEmptySuppliedTargetDeployed ==
    \A t \in Threads :
        (RollbackTo(t) /\ call[t].args[3][1] # "") => DeploysSuppliedTarget(t)

\* C13 witness: rollback() deployed a version that no earlier record of the application
\* and environment has, while an earlier success record of another version exists.
C13_Witness ==
    \E t \in Threads :
        /\ RollbackTo(t)
        /\ ret[t].kind = "return"
        /\ SuccessRefs(call[t].args[1], call[t].args[2], call[t].records_before) # {}
        /\ \A r \in 1..call[t].records_before :
              SameKey(records[r], call[t].args[1], call[t].args[2])
                  => records[r].config.version # call[t].args[3][1]
        /\ Returned(t).config.version = call[t].args[3][1]

\* the map entries other than (env, app) are the same before and after the step
OtherEntriesUnchanged(env, app) ==
    \A e \in Environment, a \in Apps :
        <<e, a>> # <<env, app>> =>
            /\ a \in DOMAIN environment_versions'[e] <=> a \in DOMAIN environment_versions[e]
            /\ a \in DOMAIN environment_versions[e] =>
                  environment_versions'[e][a] = environment_versions[e][a]

\* a step that changes the version map is made by a deploy() whose record has passed
\* every health check of its config, and sets the entry of that record's pair only
MapChangedBySuccessOnly ==
    environment_versions' # environment_versions =>
        \E t \in Threads :
            /\ At(t, "L150")
            /\ LET ref == Top(t).record
                   config == records[ref].config
               IN  /\ Len(probes[ref]) = Len(config.health_checks)
                   /\ ~FailedProbe(ref)
                   /\ records[ref].status = "in_progress"
                   /\ environment_versions'[config.environment][config.application_name]
                          = config.version
                   /\ OtherEntriesUnchanged(config.environment, config.application_name)

\* the statement after the map update marks the record success
MapChangeThenSuccess ==
    \A t \in Threads :
        At(t, "L153") => records'[Top(t).record].status = "success"

\* a call that has ended and created no success record left the map as it found it
NoSuccessLeavesMap ==
    \A t \in Threads :
        ( /\ stack[t] = <<>>
          /\ call[t].op # "none"
          /\ \A r \in Created(t) : records[r].status # "success" )
        => environment_versions = call[t].versions_before

\* C14: the version map changes only when a deployment succeeds: a step changes only
\* the entry of the (environment, application) of a record that has passed all its
\* health checks and is marked success next, and leaves every other entry alone; a call
\* whose deployment ends failed without a successful rollback leaves the whole map
\* unchanged.
C14_VersionMapFrame ==
    /\ [][MapChangedBySuccessOnly /\ MapChangeThenSuccess]_vars
    /\ []NoSuccessLeavesMap

\* C14 witness: a deployment of web to production failed, its rollback deployment failed
\* too, and the map still holds the other version it held before the call.
C14_Witness ==
    \E t \in Threads :
        /\ Deployed(t)
        /\ FailedProbe(ReturnedRef(t))
        /\ Cardinality(Created(t)) = 2
        /\ \A r \in Created(t) : records[r].status # "success"
        /\ environment_versions = call[t].versions_before
        /\ "web" \in DOMAIN environment_versions["production"]
        /\ environment_versions["production"]["web"] # Arg(t).version

\* every health check of the config of the record at r was probed and passed
AllChecksPassed(r) ==
    /\ Len(probes[r]) = Len(records[r].config.health_checks)
    /\ ~FailedProbe(r)

\* C15: a deploy(config) all of whose health checks passed returns the id of a record
\* that has status success and an end time, and the version map holds config.version
\* for config's environment and application.
C15_HealthyDeploySucceeds ==
    \A t \in Threads :
        ( /\ stack[t] = <<>>
          /\ call[t].op = "deploy"
          /\ AllChecksPassed(call[t].records_before + 1) )
        => /\ ret[t].kind = "return"
           /\ ReturnedRef(t) = call[t].records_before + 1
           /\ Returned(t).config = Arg(t)
           /\ Returned(t).status = "success"
           /\ Returned(t).end_time # None
           /\ Returned(t).end_time[1] >= Returned(t).start_time
           /\ Arg(t).application_name \in DOMAIN environment_versions[Arg(t).environment]
           /\ environment_versions[Arg(t).environment][Arg(t).application_name]
                  = Arg(t).version

\* C15 witness: a deployment with two health checks passed both and replaced the version
\* the map held for its pair.
C15_Witness ==
    \E t \in Threads :
        /\ Deployed(t)
        /\ Len(Arg(t).health_checks) = 2
        /\ AllChecksPassed(ReturnedRef(t))
        /\ Returned(t).status = "success"
        /\ Arg(t).application_name \in DOMAIN call[t].versions_before[Arg(t).environment]
        /\ call[t].versions_before[Arg(t).environment][Arg(t).application_name]
               # Arg(t).version
        /\ environment_versions[Arg(t).environment][Arg(t).application_name]
               = Arg(t).version

\* C16: records are never deleted or replaced: every deploy() invocation, top-level or
\* nested, inserted a record under an id no other record has, so the table holds as many
\* records as deploy() was invoked, and every record ever created is the one the table
\* returns for its id.
C16_RecordsNeverReplaced ==
    /\ Len(deployments) = Len(records)
    /\ \A r \in DOMAIN records : get_deployment_status(records[r].id) = Some(records[r])
    /\ \A r, q \in DOMAIN records : records[r].id = records[q].id => r = q

\* thread t's last call was list_deployments and has returned
Listed(t) == stack[t] = <<>> /\ call[t].op = "list_deployments" /\ ret[t].kind = "return"

\* the list returned to thread t holds the table's records at the positions `matching`,
\* each once, and no others, latest start first
ListAnswerIs(t, matching) ==
    LET result == ret[t].value[1]
        all == Values(records, deployments)
    IN  /\ Len(result) = Cardinality(matching)
        /\ \A j \in matching : \E i \in DOMAIN result : result[i] = all[j]
        /\ \A i \in DOMAIN result : \E j \in matching : result[i] = all[j]
        /\ \A i, j \in DOMAIN result :
              i < j => result[i].start_time >= result[j].start_time

\* C17 as stated: list(app_filter, env_filter) returns exactly the records that match
\* every filter given, all records when none is given, ordered by start_time descending.
C17_ListMatchesGivenFilters ==
    \A t \in Threads :
        Listed(t) =>
            LET app == call[t].args[1]
                env == call[t].args[2]
                all == Values(records, deployments)
            IN  ListAnswerIs(t,
                    {j \in DOMAIN all :
                        /\ app # None => all[j].config.application_name = app[1]
                        /\ env # None => all[j].config.environment = env[1]})

\* C17 amended: list(app_filter, env_filter) returns exactly the records that match every
\* filter given, an empty-string app filter counting as not given, all records when none
\* is given, ordered by start_time descending.
C17_ListMatchesNonEmptyFilters ==
    \A t \in Threads :
        Listed(t) =>
            LET app == call[t].args[1]
                env == call[t].args[2]
                all == Values(records, deployments)
            IN  ListAnswerIs(t,
                    {j \in DOMAIN all :
                        /\ TruthyStr(app) => all[j].config.application_name = app[1]
                        /\ env # None => all[j].config.environment = env[1]})

\* C17 witness: list("web", production) returned two or more records, the later-started
\* first, and left out a record the table holds.
C17_Witness ==
    \E t \in Threads :
        /\ Listed(t)
        /\ call[t].args = <<Some("web"), Some("production")>>
        /\ Len(ret[t].value[1]) >= 2
        /\ ret[t].value[1][1].start_time > ret[t].value[1][2].start_time
        /\ Len(deployments) > Len(ret[t].value[1])

\* the step is a query of thread t: it begins and ends with no deploy() in progress
QueryStep(t) == stack[t] = <<>> /\ stack'[t] = <<>> /\ call'[t].op \in QueryOps

\* the step leaves the record table, every record and the version map as they were
ReadOnly ==
    /\ records' = records
    /\ deployments' = deployments
    /\ environment_versions' = environment_versions

\* C18: a query (get_deployment_status, list_deployments, get_environment_status,
\* export_deployment_history) changes neither the record table, nor any record's
\* status or log, nor the version map; a list_deployments or get_environment_status
\* repeated with no deploy() or rollback() in between returns what it returned before.
C18_QueriesReadOnlyIdempotent ==
    [][\A t \in Threads :
          QueryStep(t) =>
              /\ ReadOnly
              /\ ( /\ call[t].op = call'[t].op
                   /\ call[t].args = call'[t].args
                   /\ call'[t].op \in {"list_deployments", "get_environment_status"} )
                 => ret'[t] = ret[t]]_vars

\* C18 witness: the history was exported while the table held a rolled-back record and
\* the map a version; the call found as many records as there are now and the map as
\* it is now.
C18_Witness ==
    \E t \in Threads :
        /\ stack[t] = <<>>
        /\ call[t].op = "export_deployment_history"
        /\ ret[t].kind = "return"
        /\ \E i \in DOMAIN ret[t].value[1].deployments :
              ret[t].value[1].deployments[i].status = "rolled_back"
        /\ "web" \in DOMAIN ret[t].value[1].environment_versions["production"]
        /\ call[t].records_before = Len(records)
        /\ call[t].versions_before = environment_versions

\* C19: a record's log only grows at its end: across every step every record is still
\* there and its log before the step is a prefix of its log after the step, so no entry
\* is removed, changed or moved.
C19_LogsAppendOnly ==
    [][\A r \in DOMAIN records :
          /\ r \in DOMAIN records'
          /\ Len(records'[r].logs) >= Len(records[r].logs)
          /\ SubSeq(records'[r].logs, 1, Len(records[r].logs)) = records[r].logs]_vars

\* C19 witness: a rolled-back record's log runs from the start of its deployment, over
\* the failure, to the id of its rollback deployment.
C19_Witness ==
    \E r \in DOMAIN records :
        LET logs == records[r].logs
        IN  /\ records[r].status = "rolled_back"
            /\ Len(logs) >= 8
            /\ logs[1][2][1] = "Starting deployment of "
            /\ \E k \in 2..(Len(logs) - 1) : logs[k][2][1] = "Deployment failed: "
            /\ logs[Len(logs)][2][1] = "Rollback deployment: "

\* the config has no application name, no version, or a canary percentage outside 1..100
Malformed(config) ==
    \/ config.application_name = ""
    \/ config.version = ""
    \/ config.canary_percentage # None /\ config.canary_percentage[1] \notin 1..100

\* C20: a deploy() called with a malformed config (empty application_name, empty
\* version, canary percentage outside 1..100) raises and has created no record: the
\* record table and the version map are as they were at the call.
C20_MalformedConfigRejected ==
    \A t \in Threads :
        (call[t].op = "deploy" /\ Malformed(Arg(t))) =>
            /\ ret[t].kind = "raise"
            /\ Len(records) = call[t].records_before
            /\ Len(deployments) = call[t].records_before
            /\ environment_versions = call[t].versions_before

\* a deploy() invocation is entered on thread t from inside another one
NestedEntry(t) == stack[t] # <<>> /\ Len(stack'[t]) > Len(stack[t])

\* C21: a deploy() invoked by a rollback (rollback_enabled false) never invokes
\* another deploy(), so deploy() frames nest at most one level below the top-level
\* call; and every top-level deploy() or rollback() eventually returns, whatever the
\* health-check list and the outcome of each check
C21_RollbackBoundedAndTerminates ==
    /\ [](\A t \in Threads : Len(stack[t]) <= 2)
    /\ [][\A t \in Threads :
            NestedEntry(t) => /\ Len(stack[t]) = 1
                              /\ records[Top(t).record].config.rollback_enabled
                              /\ ~records'[stack'[t][2].record].config.rollback_enabled]_vars
    /\ \A t \in Threads : (stack[t] # <<>>) ~> (stack[t] = <<>> /\ ret[t] # NoReturn)

\* witness: a deployment failed, its rollback deployment failed as well, and the call
\* has returned with three records in all
C21_Witness ==
    \E t \in Threads :
        /\ stack[t] = <<>>
        /\ ret[t].kind = "return"
        /\ \E r \in DOMAIN records :
              /\ records[r].status = "rolled_back"
              /\ r < Len(records)
              /\ ~records[r + 1].config.rollback_enabled
              /\ records[r + 1].status = "failed"
              /\ records[r + 1].end_time # None

\* the version map's entry for (app, env) is not the version of a success record of
\* (app, env) with the latest start_time
MapDiffersFromLatest(app, env) ==
    /\ SuccessRefs(app, env, Len(records)) # {}
    /\ app \in DOMAIN get_environment_status[env]
    /\ get_environment_status[env][app]
          \notin LatestVersions(SuccessRefs(app, env, Len(records)))

\* two deploy() invocations for (app, env) ran at the same time
Interleaved(app, env) ==
    \E a, b \in DOMAIN records :
        /\ SameKey(records[a], app, env)
        /\ SameKey(records[b], app, env)
        /\ Overlap(a, b)

\* C22: two deploy() invocations for one (application, environment) that interleave
\* without serialization can end, after both completed, with a version-map entry that
\* is not the version of the success record with the latest start_time (witness); it
\* takes interleaved invocations for the key to get there
C22_UnserializedDeploysBreakMap ==
    AllReturned /\ MapDiffersFromLatest("web", "production")
        => Interleaved("web", "production")

\* witness: both callers' deploy() returned, both records are success, and the map's
\* entry is the version of the one that started first
C22_Witness ==
    /\ AllReturned
    /\ \A t \in Callers : call[t].op = "deploy" /\ ret[t].kind = "return"
    /\ Len(records) = 2
    /\ \A r \in DOMAIN records : records[r].status = "success"
    /\ records[1].start_time < records[2].start_time
    /\ MapDiffersFromLatest("web", "production")
    /\ get_environment_status["production"]["web"] = records[1].config.version

\* record r belongs to a deploy() frame of the call thread t has in progress
InCall(t, r) == \E d \in DOMAIN stack[t] : stack[t][d].record = r

\* the version map agrees with the success records of every key nobody deploys to
KeysConsistent ==
    \A app \in Apps :
        (\A t \in Callers : stack[t] = <<>> \/ ~SameKey(records[stack[t][1].record],
                                                       app, "production"))
            => IF SuccessRefs(app, "production", Len(records)) = {}
               THEN app \notin DOMAIN get_environment_status["production"]
               ELSE ~MapDiffersFromLatest(app, "production")

\* a rollback deployment carries the key of the record it rolls back, and a version
\* that a success record of that key has
OwnKeySelection ==
    \A t \in Callers :
        Len(stack[t]) = 2 =>
            LET failed == records[stack[t][1].record]
                chosen == records[stack[t][2].record]
            IN  /\ SameKey(chosen, failed.config.application_name,
                           failed.config.environment)
                /\ \E s \in SuccessRefs(failed.config.application_name,
                                        failed.config.environment, Len(records)) :
                      records[s].config.version = chosen.config.version

\* a failed deployment with rollback enabled and an earlier success record of its key
\* was rolled back by the time its call ended, as it is when its key is deployed alone
RolledBackAsAlone ==
    \A r \in DOMAIN records :
        /\ records[r].status = "failed"
        /\ records[r].config.rollback_enabled
        /\ SuccessRefs(records[r].config.application_name,
                       records[r].config.environment, r - 1) # {}
        => \E t \in Callers : InCall(t, r)

\* a step changes a key's version-map entry or a record's status only on behalf of a
\* call in progress for that key or on that record
OwnWritesOnly ==
    /\ \A app \in Apps :
          (\/ (app \in DOMAIN environment_versions'["production"])
                 # (app \in DOMAIN environment_versions["production"])
           \/ /\ app \in DOMAIN environment_versions["production"]
              /\ environment_versions'["production"][app]
                    # environment_versions["production"][app])
          => \E t \in Callers :
                /\ stack[t] # <<>>
                /\ SameKey(records[Top(t).record], app, "production")
    /\ \A r \in DOMAIN records :
          records'[r].status # records[r].status =>
              \E t \in Callers : InCall(t, r)

\* C23: with deploys serialized per (application, environment) and interleaved across
\* distinct keys, the version map stays consistent for every key, a rollback selects
\* among its own key's records only, and a deploy on one key changes neither the
\* version-map entry, nor a record status, nor the rollback of another key
C23_DistinctKeysIsolated ==
    /\ [](KeysConsistent /\ OwnKeySelection /\ RolledBackAsAlone)
    /\ [][OwnWritesOnly]_vars

\* divide(a, b) has been called and has returned or raised
Divided == division # None /\ division[1].outcome # NoReturn

\* C24 as stated: divide(a, b) raises ValueError("Cannot divide by zero") for every a
\* when b == 0, and raises no error when b != 0
C24_DivideRaisesOnlyOnZero ==
    Divided =>
        IF EqualsZero(division[1].b)
        THEN division[1].outcome = Raise("ValueError", "Cannot divide by zero")
        ELSE division[1].outcome.kind = "return"

\* C24, amended: divide(a, b) raises ValueError("Cannot divide by zero") for every a
\* when b == 0; when b != 0 it raises no error provided each int operand fits a
\* float, and then returns the quotient a / b
C24_DivideRaisesOnlyOnZeroInFloatRange ==
    Divided =>
        IF EqualsZero(division[1].b)
        THEN division[1].outcome = Raise("ValueError", "Cannot divide by zero")
        ELSE Converts(division[1].a) /\ Converts(division[1].b)
                => /\ division[1].outcome.kind = "return"
                   /\ division[1].outcome.value[1].type = "float"

\* witness: divide(nan, -0.0) raised the ValueError and no quotient was computed
C24_Witness ==
    /\ Divided
    /\ division[1].a.class = "nan"
    /\ division[1].b = Number("float", "zero", -1, 0)
    /\ division[1].outcome.kind = "raise"
    /\ division[1].outcome.error = Some(<<"ValueError", "Cannot divide by zero">>)

\* positions of the log entries of rec written by the rolling procedure
RollingEntries(rec) ==
    {k \in DOMAIN rec.logs : rec.logs[k][2] = <<"Executing rolling deployment">>}

\* positions of the log entries of rec written by the blue-green procedure
BlueGreenEntries(rec) ==
    {k \in DOMAIN rec.logs :
        rec.logs[k][2] \in {<<"Executing blue-green deployment">>,
                            <<"Blue environment ready, switching traffic">>}}

\* positions of the log entries of rec written by the canary procedure
CanaryEntries(rec) ==
    {k \in DOMAIN rec.logs :
        \/ rec.logs[k][2][1] = "Starting canary deployment with "
        \/ rec.logs[k][2] = <<"Canary deployment successful, rolling out to 100%">>}

StrategyEntries(rec) == RollingEntries(rec) \cup BlueGreenEntries(rec) \cup CanaryEntries(rec)

\* positions of the log entries of rec written by _run_health_checks
CheckEntries(rec) ==
    {k \in DOMAIN rec.logs :
        \/ rec.logs[k][2] = <<"Running health checks...">>
        \/ rec.logs[k][2][1] = "Health check "}

\* _execute_deployment has run for rec
Executed(rec) == Logged(rec, <<"Application deployed successfully">>)

\* C25: each deploy() runs exactly one strategy-specific rollout procedure: the record
\* carries either one rolling entry, or the two blue-green entries, or the two canary
\* entries, and nothing of the other two strategies; they are logged once, before any
\* health check runs
C25_OneRolloutProcedure ==
    \A r \in DOMAIN records :
        LET rec == records[r]
            rolling == Cardinality(RollingEntries(rec))
            blue_green == Cardinality(BlueGreenEntries(rec))
            canary == Cardinality(CanaryEntries(rec))
        IN  /\ Executed(rec) \/ CheckEntries(rec) # {}
                => <<rolling, blue_green, canary>>
                      \in {<<1, 0, 0>>, <<0, 2, 0>>, <<0, 0, 2>>}
            /\ ~Executed(rec) => StrategyEntries(rec) = {}
            /\ \A k \in StrategyEntries(rec), c \in CheckEntries(rec) : k < c

\* witness: a blue-green and a canary deployment have run, each with its two entries,
\* health checks were logged after them, and the blue-green one succeeded
C25_Witness ==
    \E a, b \in DOMAIN records :
        /\ Cardinality(BlueGreenEntries(records[a])) = 2
        /\ Cardinality(CanaryEntries(records[b])) = 2
        /\ CheckEntries(records[a]) # {}
        /\ CheckEntries(records[b]) # {}
        /\ records[a].status = "success"

\* C26: run to completion.  Whenever no top-level deploy() or rollback() is in
\* progress, no record is pending or in_progress: every record has a status among
\* success, failed and rolled_back, an end_time, and an error_message exactly when its
\* status is failed or rolled_back
C26_RunToCompletion ==
    Quiescent =>
        \A r \in DOMAIN records :
            /\ records[r].status \in {"success", "failed", "rolled_back"}
            /\ records[r].end_time # None
            /\ records[r].error_message # None
                  <=> records[r].status \in {"failed", "rolled_back"}

\* witness: the calls have returned and left a success record, a rolled-back record
\* and the failed record of its rollback deployment
C26_Witness ==
    /\ Quiescent
    /\ \A t \in Threads : ret[t].kind = "return"
    /\ \E a, b, c \in DOMAIN records :
          /\ records[a].status = "success"
          /\ records[b].status = "rolled_back"
          /\ records[c].status = "failed"
          /\ records[c].error_message # None


\* thread t's last call is rollback(app, env) without a target, made when (app, env)
\* had a success record
RollbackToHistory(t) ==
    /\ call[t].op = "rollback"
    /\ call[t].args[3] = None
    /\ SuccessRefs(call[t].args[1], call[t].args[2], call[t].records_before) # {}

C28_StrategyPrecedence ==
    \A r \in DOMAIN records :
        LET rec == records[r]
            config == rec.config
        IN  Executed(rec) =>
              /\ config.blue_green /\ config.canary_percentage # None
                    => /\ Cardinality(BlueGreenEntries(rec)) = 2
                       /\ CanaryEntries(rec) = {}
                       /\ RollingEntries(rec) = {}
              /\ ~config.blue_green /\ config.canary_percentage \in {None, Some(0)}
                    => /\ Cardinality(RollingEntries(rec)) = 1
                       /\ BlueGreenEntries(rec) = {}
                       /\ CanaryEntries(rec) = {}

\* witness: a config with blue_green and canary_percentage 10 and a config with
\* canary_percentage 0 have both been deployed
C28_Witness ==
    \E a, b \in DOMAIN records :
        /\ Executed(records[a])
        /\ records[a].config.blue_green
        /\ records[a].config.canary_percentage = Some(10)
        /\ Executed(records[b])
        /\ ~records[b].config.blue_green
        /\ records[b].config.canary_percentage = Some(0)

\* tasks that returned from acquire() and have not released yet
Holders == {i \in TaskIds : tasks[i].pc = "working"}

\* C29: with a RateLimiter made with tasks_per_second = N, whatever the interleaving
\* of the tasks and the timing of the one-second reset, at most N tasks have returned
\* from acquire() without releasing yet, and the limiter's current semaphore never has
\* more than N permits available
C29_AtMostNHolders ==
    /\ Cardinality(Holders) <= rate_limiter.tasks_per_second
    /\ semaphores[rate_limiter.semaphore].value <= rate_limiter.tasks_per_second

\* C30: every task eventually returns from acquire() and completes, whatever the
\* interleaving and the timing of the reset: no task stays queued for ever on a
\* semaphore the limiter has replaced
C30_EveryTaskCompletes == \A i \in TaskIds : <>(tasks[i].pc = "done")


============================================================================
